---- MODULE Spec2Model ----
\* nb-utils: extensions of nb::Result (wait, wait_map, if_ready, expect_ok,
\* into_poll, is_would_block) and the adapters built on them
\* (poll_nb_future, poll_nb_stream, yield_executor).
EXTENDS Integers, Sequences, FiniteSets, TLC

\* ------------------------------------------------------------------ bounds
MaxVal == 2      \* payloads T are 1..MaxVal
MaxErr == 2      \* errors E (and consumer errors U) are 1..MaxErr
MaxTurns == 5    \* scheduler turns (polls) of one computation
MaxWrapTurns == 3  \* invocations of a composition over an arbitrary closure
MaxPolls == 34   \* invocations of a composition over poll_me

Values == 1..MaxVal
Errors == 1..MaxErr
Msgs == {"m1", "m2"}

\* ------------------------------------------------------------- data types
\* nb::Result<T, E>: Ok(T) | Err(nb::Error::WouldBlock) | Err(nb::Error::Other(E))
Ok(v) == [tag |-> "Ok", val |-> v]
WouldBlock == [tag |-> "WouldBlock"]
Other(e) == [tag |-> "Other", err |-> e]
NbResults == {Ok(v) : v \in Values} \cup {WouldBlock} \cup {Other(e) : e \in Errors}

\* core::result::Result<T, E>
ROk(v) == [tag |-> "ROk", val |-> v]
RErr(e) == [tag |-> "RErr", err |-> e]
Unit == <<>>

\* core::option::Option<T>
Some(v) == [tag |-> "Some", val |-> v]
None == [tag |-> "None"]

\* core::task::Poll<T>
Ready(v) == [tag |-> "Ready", val |-> v]
Pending == [tag |-> "Pending"]

\* Poll::map(Some)
Poll_map_Some(p) == IF p.tag = "Ready" THEN Ready(Some(p.val)) ELSE p

\* core::task::Context: the only thing used is the waker, modelled by the
\* number of wake_by_ref calls it has received.
wake_by_ref(ctx) == [wakes |-> ctx.wakes + 1]

\* callbacks handed to the combinators
Preds == [Values -> BOOLEAN]
Transforms == [Values -> {None} \cup {Some(u) : u \in Values}]
Consumers == [Values -> {ROk(Unit)} \cup {RErr(u) : u \in Errors}]
Conversions == [Errors -> Errors]

\* ---------------------------------------------------- NbResultExt methods
\* Each returns the method's value together with the arguments with which it
\* invoked its callback, in order.
wait_always_calls(self, pred) ==
    IF self.tag = "Ok"
    THEN [ret |-> IF pred[self.val] THEN Ok(self.val) ELSE WouldBlock,
          calls |-> <<self.val>>]
    ELSE [ret |-> self, calls |-> <<1>>]

wait_negated(self, pred) ==
    IF self.tag = "Ok"
    THEN [ret |-> IF ~pred[self.val] THEN Ok(self.val) ELSE WouldBlock,
          calls |-> <<self.val>>]
    ELSE [ret |-> self, calls |-> <<>>]

wait(self, pred) ==
    IF self.tag = "Ok"
    THEN [ret |-> IF pred[self.val] THEN Ok(self.val) ELSE WouldBlock,
          calls |-> <<self.val>>]
    ELSE [ret |-> self, calls |-> <<>>]

wait_map_unmapped(self, pred) ==
    IF self.tag = "Ok"
    THEN [ret |-> IF pred[self.val].tag = "Some"
                  THEN Ok(self.val)
                  ELSE WouldBlock,
          calls |-> <<self.val>>]
    ELSE IF self.tag = "Other"
    THEN [ret |-> Other(self.err), calls |-> <<>>]
    ELSE [ret |-> WouldBlock, calls |-> <<>>]

wait_map_swallow(self, pred) ==
    IF self.tag = "Ok"
    THEN [ret |-> IF pred[self.val].tag = "Some"
                  THEN Ok(pred[self.val].val)
                  ELSE WouldBlock,
          calls |-> <<self.val>>]
    ELSE [ret |-> WouldBlock, calls |-> <<>>]

wait_map(self, pred) ==
    IF self.tag = "Ok"
    THEN [ret |-> IF pred[self.val].tag = "Some"
                  THEN Ok(pred[self.val].val)
                  ELSE WouldBlock,
          calls |-> <<self.val>>]
    ELSE IF self.tag = "Other"
    THEN [ret |-> Other(self.err), calls |-> <<>>]
    ELSE [ret |-> WouldBlock, calls |-> <<>>]

\* Result::map_err
map_err(r, from) == IF r.tag = "RErr" THEN RErr(from[r.err]) ELSE r

if_ready_swallow(self, then, from) ==
    IF self.tag = "Other"
    THEN [ret |-> RErr(self.err), calls |-> <<>>]
    ELSE IF self.tag = "WouldBlock"
    THEN [ret |-> ROk(Unit), calls |-> <<>>]
    ELSE [ret |-> ROk(Unit), calls |-> <<self.val>>]

if_ready(self, then, from) ==
    IF self.tag = "Other"
    THEN [ret |-> RErr(self.err), calls |-> <<>>]
    ELSE IF self.tag = "WouldBlock"
    THEN [ret |-> ROk(Unit), calls |-> <<>>]
    ELSE [ret |-> map_err(then[self.val], from), calls |-> <<self.val>>]

\* A panic returns nothing: panicked is set, with the panic message.
NoValue == [tag |-> "NoValue"]
NoPanic == [tag |-> "NoPanic"]
Panic(msg, error) == [tag |-> "Panic", msg |-> msg, err |-> error]

expect_ok_strict(self, msg) ==
    IF self.tag = "Ok"
    THEN [ret |-> Some(self.val), panic |-> NoPanic]
    ELSE IF self.tag = "WouldBlock"
    THEN [ret |-> NoValue, panic |-> Panic(msg, 0)]
    ELSE [ret |-> NoValue, panic |-> Panic(msg, self.err)]

expect_ok(self, msg) ==
    IF self.tag = "Ok"
    THEN [ret |-> Some(self.val), panic |-> NoPanic]
    ELSE IF self.tag = "WouldBlock"
    THEN [ret |-> None, panic |-> NoPanic]
    ELSE [ret |-> NoValue, panic |-> Panic(msg, self.err)]

into_poll_no_wake(self, ctx) ==
    IF self.tag = "Ok"
    THEN [ret |-> Ready(ROk(self.val)), ctx |-> ctx]
    ELSE IF self.tag = "Other"
    THEN [ret |-> Ready(RErr(self.err)), ctx |-> ctx]
    ELSE [ret |-> Pending, ctx |-> ctx]

into_poll(self, ctx) ==
    IF self.tag = "Ok"
    THEN [ret |-> Ready(ROk(self.val)), ctx |-> ctx]
    ELSE IF self.tag = "Other"
    THEN [ret |-> Ready(RErr(self.err)), ctx |-> ctx]
    ELSE [ret |-> Pending, ctx |-> wake_by_ref(ctx)]

is_would_block_any_err(self) == self.tag # "Ok"

is_would_block(self) == self.tag = "WouldBlock"

\* std::io::Result<T>: Ok(T) | Err(std::io::Error); of the error only its
\* kind() is inspected, the code stands for the rest of the error value.
IoKinds == {"WouldBlock", "NotFound", "Interrupted"}
IoErrors == [kind : IoKinds, code : Errors]
IoOk(v) == [tag |-> "IoOk", val |-> v]
IoErr(e) == [tag |-> "IoErr", err |-> e]
IoResults == {IoOk(v) : v \in Values} \cup {IoErr(e) : e \in IoErrors}

IsNbResult(x) == x.tag \in {"Ok", "WouldBlock", "Other"}
IsIoResult(x) == x.tag \in {"IoOk", "IoErr"}

into_nb_result_any_kind(self) ==
    IF self.tag = "IoOk"
    THEN Ok(self.val)
    ELSE WouldBlock

into_nb_result(self) ==
    IF self.tag = "IoOk"
    THEN Ok(self.val)
    ELSE IF self.err.kind = "WouldBlock"
    THEN WouldBlock
    ELSE Other(self.err)

\* ------------------------------------------------------------------ state
VARIABLES
    task,       \* which computation the scheduler drives: "future", "stream", "yield"
    produced,   \* outcomes the wrapped closure poll_fn has returned, in order
    turns,      \* per scheduler turn: the Poll returned and the wakes requested
    ctx,        \* the task Context (its waker)
    yielded,    \* yield_executor's captured flag
    input,      \* the nb::Result a combinator is applied to
    op,         \* the combinator that has been applied ("none" before)
    cb,         \* the callback(s) / message handed to the combinator
    out,        \* the combinator's return value
    cbCalls,    \* arguments with which the combinator invoked its callback
    panicked,   \* the panic raised by the combinator, NoPanic if none
    closure,    \* the polling closure of a composition: any closure, or poll_me
    block,      \* the MaybeBlock that poll_me borrows
    driver,     \* what invokes the composition: "block", "future", "stream", "if_ready"
    filter,     \* the combinator chained on the closure's outcome, with its callback
    steps       \* per invocation: closure outcome, filtered outcome, callback
                \* arguments, what the driver got back, wakes requested

vars == <<task, produced, turns, ctx, yielded, input, op, cb, out, cbCalls, panicked,
          closure, block, driver, filter, steps>>

adapterVars == <<task, produced, turns, yielded>>
algebraVars == <<input, op, cb, out, cbCalls, panicked>>
compVars == <<closure, block, driver, filter, steps>>

NewContext == [wakes |-> 0]

AdapterIdle(t) ==
    /\ task = t
    /\ produced = <<>>
    /\ turns = <<>>
    /\ yielded = FALSE

AlgebraIdle(i) ==
    /\ input = i
    /\ op = "none"
    /\ cb = <<>>
    /\ out = NoValue
    /\ cbCalls = <<>>
    /\ panicked = NoPanic

\* struct MaybeBlock
MaybeBlock(per_item, value, remaining) ==
    [attempts_per_item |-> per_item, value |-> value, remaining_attemts |-> remaining]

\* MaybeBlock::default()
MaybeBlock_default == MaybeBlock(5, 0, 1)

AnyClosure == [kind |-> "any"]
NoFilter == [kind |-> "none"]

CompIdle ==
    /\ closure = AnyClosure
    /\ block = MaybeBlock_default
    /\ driver = "none"
    /\ filter = NoFilter
    /\ steps = <<>>

Turn(ret, before, after) == [ret |-> ret, woke |-> after.wakes - before.wakes]

\* --------------------------------------------------------------- adapters
\* The closures handed to futures_util::{future,stream}::poll_fn, applied to
\* the outcome o of this turn's poll_fn() call.
poll_nb_future_eager(o, c) ==
    IF o.tag = "WouldBlock" THEN into_poll(Ok(1), c) ELSE into_poll(o, c)

poll_nb_future(o, c) == into_poll(o, c)

poll_nb_stream_fused(o, c) ==
    IF o.tag = "Other"
    THEN [ret |-> Ready(None), ctx |-> c]
    ELSE LET r == into_poll(o, c) IN [ret |-> Poll_map_Some(r.ret), ctx |-> r.ctx]

poll_nb_stream_giveup(o, c) ==
    IF o.tag = "WouldBlock" /\ c.wakes >= 2
    THEN [ret |-> Ready(None), ctx |-> c]
    ELSE LET r == into_poll(o, c) IN [ret |-> Poll_map_Some(r.ret), ctx |-> r.ctx]

poll_nb_stream(o, c) ==
    LET r == into_poll(o, c) IN [ret |-> Poll_map_Some(r.ret), ctx |-> r.ctx]

yield_executor_forgetful(y, c) ==
    IF ~y
    THEN [yielded |-> FALSE, ctx |-> wake_by_ref(c), ret |-> Pending]
    ELSE [yielded |-> y, ctx |-> c, ret |-> Ready(Unit)]

yield_executor(y, c) ==
    IF ~y
    THEN [yielded |-> TRUE, ctx |-> wake_by_ref(c), ret |-> Pending]
    ELSE [yielded |-> y, ctx |-> c, ret |-> Ready(Unit)]

\* One scheduler turn of the future returned by poll_nb_future.
PollFuture_double ==
    /\ task = "future"
    /\ Len(turns) < MaxTurns
    /\ \E o1 \in NbResults, o \in NbResults :
         LET r == poll_nb_future(o, ctx) IN
           /\ produced' = produced \o <<o1, o>>
           /\ turns' = Append(turns, Turn(r.ret, ctx, r.ctx))
           /\ ctx' = r.ctx
    /\ UNCHANGED <<task, yielded, algebraVars, compVars>>

PollFuture ==
    /\ task = "future"
    /\ Len(turns) < MaxTurns
    /\ \E o \in NbResults :
         LET r == poll_nb_future(o, ctx) IN
           /\ produced' = Append(produced, o)
           /\ turns' = Append(turns, Turn(r.ret, ctx, r.ctx))
           /\ ctx' = r.ctx
    /\ UNCHANGED <<task, yielded, algebraVars, compVars>>

\* One scheduler turn (poll_next) of the stream returned by poll_nb_stream.
PollStream_skipping ==
    /\ task = "stream"
    /\ Len(turns) < MaxTurns
    /\ \E o1 \in NbResults, o \in NbResults :
         LET r == poll_nb_stream(o, ctx) IN
           /\ produced' = produced \o <<o1, o>>
           /\ turns' = Append(turns, Turn(r.ret, ctx, r.ctx))
           /\ ctx' = r.ctx
    /\ UNCHANGED <<task, yielded, algebraVars, compVars>>

PollStream_fusing ==
    /\ task = "stream"
    /\ Len(turns) < MaxTurns
    /\ IF \E i \in 1..Len(produced) : produced[i].tag = "Other"
       THEN /\ turns' = Append(turns, [ret |-> Ready(None), woke |-> 0])
            /\ UNCHANGED <<produced, ctx>>
       ELSE \E o \in NbResults :
              LET r == poll_nb_stream(o, ctx) IN
                /\ produced' = Append(produced, o)
                /\ turns' = Append(turns, Turn(r.ret, ctx, r.ctx))
                /\ ctx' = r.ctx
    /\ UNCHANGED <<task, yielded, algebraVars, compVars>>

PollStream ==
    /\ task = "stream"
    /\ Len(turns) < MaxTurns
    /\ \E o \in NbResults :
         LET r == poll_nb_stream(o, ctx) IN
           /\ produced' = Append(produced, o)
           /\ turns' = Append(turns, Turn(r.ret, ctx, r.ctx))
           /\ ctx' = r.ctx
    /\ UNCHANGED <<task, yielded, algebraVars, compVars>>

\* One scheduler turn of the future returned by yield_executor.
PollYield ==
    /\ task = "yield"
    /\ Len(turns) < MaxTurns
    /\ LET r == yield_executor(yielded, ctx) IN
         /\ yielded' = r.yielded
         /\ turns' = Append(turns, Turn(r.ret, ctx, r.ctx))
         /\ ctx' = r.ctx
    /\ UNCHANGED <<task, produced, algebraVars, compVars>>

Init ==
    /\ \E t \in {"future", "stream", "yield"} : AdapterIdle(t)
    /\ ctx = NewContext
    /\ AlgebraIdle(WouldBlock)
    /\ CompIdle

Next == PollFuture \/ PollStream \/ PollYield

Spec == Init /\ [][Next]_vars

\* ------------------------------------------------- wake-driven scheduling
\* A scheduler that polls a computation once when it is spawned and from then
\* on only after the computation requested a wake; it drops a future that has
\* resolved and asks a stream for its next item.  The wrapped closure returns
\* a non-WouldBlock outcome by its MaxTurns-th call at the latest.
LastTurn == turns[Len(turns)]
Runnable ==
    IF turns = <<>> THEN TRUE
    ELSE IF LastTurn.woke > 0 THEN TRUE
    ELSE task = "stream" /\ LastTurn.ret.tag = "Ready"
Completed ==
    IF turns = <<>> THEN FALSE
    ELSE task # "stream" /\ LastTurn.ret.tag = "Ready"
LiveOutcomes ==
    IF Len(produced) + 1 >= MaxTurns THEN NbResults \ {WouldBlock} ELSE NbResults

SchedFuture ==
    /\ task = "future"
    /\ Runnable /\ ~Completed
    /\ Len(turns) < MaxTurns
    /\ \E o \in LiveOutcomes :
         LET r == poll_nb_future(o, ctx) IN
           /\ produced' = Append(produced, o)
           /\ turns' = Append(turns, Turn(r.ret, ctx, r.ctx))
           /\ ctx' = r.ctx
    /\ UNCHANGED <<task, yielded, algebraVars, compVars>>

SchedStream ==
    /\ task = "stream"
    /\ Runnable
    /\ Len(turns) < MaxTurns
    /\ \E o \in LiveOutcomes :
         LET r == poll_nb_stream(o, ctx) IN
           /\ produced' = Append(produced, o)
           /\ turns' = Append(turns, Turn(r.ret, ctx, r.ctx))
           /\ ctx' = r.ctx
    /\ UNCHANGED <<task, yielded, algebraVars, compVars>>

SchedYield ==
    /\ task = "yield"
    /\ Runnable /\ ~Completed
    /\ Len(turns) < MaxTurns
    /\ LET r == yield_executor(yielded, ctx) IN
         /\ yielded' = r.yielded
         /\ turns' = Append(turns, Turn(r.ret, ctx, r.ctx))
         /\ ctx' = r.ctx
    /\ UNCHANGED <<task, produced, algebraVars, compVars>>

NextLive == SchedFuture \/ SchedStream \/ SchedYield

SpecLive == Init /\ [][NextLive]_vars /\ WF_vars(NextLive)

\* ------------------------------------------------------------ combinators
\* One application of a NbResultExt method to the drawn input.
Wait ==
    /\ op = "none"
    /\ IsNbResult(input)
    /\ \E pred \in Preds :
         LET r == wait(input, pred) IN
           /\ cb' = pred
           /\ out' = r.ret
           /\ cbCalls' = r.calls
    /\ op' = "wait"
    /\ UNCHANGED <<input, panicked, ctx, adapterVars, compVars>>

WaitMap ==
    /\ op = "none"
    /\ IsNbResult(input)
    /\ \E pred \in Transforms :
         LET r == wait_map(input, pred) IN
           /\ cb' = pred
           /\ out' = r.ret
           /\ cbCalls' = r.calls
    /\ op' = "wait_map"
    /\ UNCHANGED <<input, panicked, ctx, adapterVars, compVars>>

IfReady ==
    /\ op = "none"
    /\ IsNbResult(input)
    /\ \E then \in Consumers, from \in Conversions :
         LET r == if_ready(input, then, from) IN
           /\ cb' = [then |-> then, from |-> from]
           /\ out' = r.ret
           /\ cbCalls' = r.calls
    /\ op' = "if_ready"
    /\ UNCHANGED <<input, panicked, ctx, adapterVars, compVars>>

ExpectOk ==
    /\ op = "none"
    /\ IsNbResult(input)
    /\ \E msg \in Msgs :
         LET r == expect_ok(input, msg) IN
           /\ cb' = msg
           /\ out' = r.ret
           /\ panicked' = r.panic
    /\ op' = "expect_ok"
    /\ UNCHANGED <<input, cbCalls, ctx, adapterVars, compVars>>

IntoPoll ==
    /\ op = "none"
    /\ IsNbResult(input)
    /\ LET r == into_poll(input, ctx) IN
         /\ out' = r.ret
         /\ ctx' = r.ctx
    /\ op' = "into_poll"
    /\ UNCHANGED <<input, cb, cbCalls, panicked, adapterVars, compVars>>

IsWouldBlock ==
    /\ op = "none"
    /\ IsNbResult(input)
    /\ out' = is_would_block(input)
    /\ op' = "is_would_block"
    /\ UNCHANGED <<input, cb, cbCalls, panicked, ctx, adapterVars, compVars>>

\* IntoNbResult::into_nb_result applied to the drawn std::io::Result.
IntoNbResult ==
    /\ op = "none"
    /\ IsIoResult(input)
    /\ out' = into_nb_result(input)
    /\ op' = "into_nb_result"
    /\ UNCHANGED <<input, cb, cbCalls, panicked, ctx, adapterVars, compVars>>

InitAlg ==
    /\ \E i \in NbResults \cup IoResults : AlgebraIdle(i)
    /\ ctx = NewContext
    /\ AdapterIdle("none")
    /\ CompIdle

NextAlg ==
    \/ Wait \/ WaitMap \/ IfReady \/ ExpectOk \/ IntoPoll
    \/ IsWouldBlock \/ IntoNbResult

SpecAlg == InitAlg /\ [][NextAlg]_vars

\* ----------------------------------------------------------- compositions
\* closure().filter(..) invoked repeatedly by nb::block!, by spin_on of the
\* future or stream wrapping it, or followed by if_ready, over an arbitrary
\* closure or over the tests' MaybeBlock::poll_me.
TestVals == 0..(MaxPolls + 18)

poll_me_no_reset(b) ==
    IF b.remaining_attemts = 0
    THEN [ret |-> Ok(b.value), block |-> [b EXCEPT !.value = b.value + 1]]
    ELSE [ret |-> WouldBlock,
          block |-> [b EXCEPT !.remaining_attemts = b.remaining_attemts - 1]]

poll_me(b) ==
    IF b.remaining_attemts = 0
    THEN [ret |-> Ok(b.value),
          block |-> [b EXCEPT !.value = b.value + 1,
                              !.remaining_attemts = b.attempts_per_item]]
    ELSE [ret |-> WouldBlock,
          block |-> [b EXCEPT !.remaining_attemts = b.remaining_attemts - 1]]

\* the callbacks of test_filter, test_filter_map and test_if_ready
Panics == [tag |-> "Panics"]
test_filter_pred == [value \in TestVals |-> value = 5]
test_filter_map_pred == [value \in TestVals |-> IF value = 5 THEN Some("ready") ELSE None]
test_if_ready_first == [value \in TestVals |-> Panics]
test_if_ready_second == [value \in TestVals |-> IF value = 18 THEN ROk(Unit) ELSE Panics]
unit_from == [u \in {Unit} |-> u]

\* the blocks the tests construct
test_poll_nb_future_block == MaybeBlock(5, 1, 1)
test_if_ready_block == MaybeBlock(2, 18, 2)
TestBlocks == {MaybeBlock_default, test_poll_nb_future_block}
PollMe(b) == [kind |-> "poll_me", init |-> b]

WaitFilter(p) == [kind |-> "wait", pred |-> p]
WaitMapFilter(f) == [kind |-> "wait_map", pred |-> f]

\* nb::block!: one iteration of its loop on the expression's value
Continue == [tag |-> "Continue"]
nb_block(e) ==
    IF e.tag = "WouldBlock" THEN Continue
    ELSE IF e.tag = "Other" THEN RErr(e.err)
    ELSE ROk(e.val)

StepBound == IF closure.kind = "poll_me" THEN MaxPolls ELSE MaxWrapTurns

\* one call of the closure: its outcome and the block it leaves
CallClosure ==
    IF closure.kind = "poll_me"
    THEN {poll_me(block)}
    ELSE {[ret |-> o, block |-> block] : o \in NbResults}

\* the chained combinator applied to the closure's outcome
Filtered(o) ==
    IF filter.kind = "wait" THEN wait(o, filter.pred)
    ELSE IF filter.kind = "wait_map" THEN wait_map(o, filter.pred)
    ELSE [ret |-> o, calls |-> <<>>]

Step(raw, fed, calls, ret, woke) ==
    [raw |-> raw, fed |-> fed, calls |-> calls, ret |-> ret, woke |-> woke]

Last == steps[Len(steps)]

\* the driver has returned: nb::block! broke out of its loop, spin_on got
\* Poll::Ready, the test ran both if_ready calls or panicked
Finished ==
    /\ steps # <<>>
    /\ \/ driver = "block" /\ Last.ret # Continue
       \/ driver = "future" /\ Last.ret.tag = "Ready"
       \/ driver = "if_ready" /\ (Len(steps) = 2 \/ Last.ret = Panics)

\* One iteration of nb::block!(closure().filter(..)).
BlockStep_unfiltered ==
    /\ driver = "block"
    /\ ~Finished
    /\ Len(steps) < StepBound
    /\ \E c \in CallClosure :
         LET f == Filtered(c.ret) IN
           /\ block' = c.block
           /\ steps' = Append(steps, Step(c.ret, f.ret, f.calls, nb_block(c.ret), 0))
    /\ UNCHANGED <<closure, driver, filter, ctx, adapterVars, algebraVars>>

BlockStep ==
    /\ driver = "block"
    /\ ~Finished
    /\ Len(steps) < StepBound
    /\ \E c \in CallClosure :
         LET f == Filtered(c.ret) IN
           /\ block' = c.block
           /\ steps' = Append(steps, Step(c.ret, f.ret, f.calls, nb_block(f.ret), 0))
    /\ UNCHANGED <<closure, driver, filter, ctx, adapterVars, algebraVars>>

\* One turn of spin_on(poll_nb_future(|| closure().filter(..))).
FutureStep ==
    /\ driver = "future"
    /\ ~Finished
    /\ Len(steps) < StepBound
    /\ \E c \in CallClosure :
         LET f == Filtered(c.ret)
             r == poll_nb_future(f.ret, ctx)
         IN /\ block' = c.block
            /\ steps' = Append(steps, Step(c.ret, f.ret, f.calls, r.ret,
                                           r.ctx.wakes - ctx.wakes))
            /\ ctx' = r.ctx
    /\ UNCHANGED <<closure, driver, filter, adapterVars, algebraVars>>

\* One poll_next of poll_nb_stream(|| closure().filter(..)).
StreamStep ==
    /\ driver = "stream"
    /\ Len(steps) < StepBound
    /\ \E c \in CallClosure :
         LET f == Filtered(c.ret)
             r == poll_nb_stream(f.ret, ctx)
         IN /\ block' = c.block
            /\ steps' = Append(steps, Step(c.ret, f.ret, f.calls, r.ret,
                                           r.ctx.wakes - ctx.wakes))
            /\ ctx' = r.ctx
    /\ UNCHANGED <<closure, driver, filter, adapterVars, algebraVars>>

\* The next block.poll_me().if_ready(..) statement of test_if_ready.
IfReadyStep ==
    /\ driver = "if_ready"
    /\ ~Finished
    /\ \E c \in CallClosure :
         LET then == IF steps = <<>> THEN test_if_ready_first ELSE test_if_ready_second
             r == if_ready(c.ret, then, unit_from)
         IN /\ block' = c.block
            /\ steps' = Append(steps, Step(c.ret, c.ret, r.calls, r.ret, 0))
    /\ UNCHANGED <<closure, driver, filter, ctx, adapterVars, algebraVars>>

InitComp ==
    /\ \/ /\ closure = AnyClosure
          /\ block = MaybeBlock_default
          /\ driver \in {"block", "future", "stream"}
          /\ \/ filter = NoFilter
             \/ \E p \in Preds : filter = WaitFilter(p)
             \/ \E f \in Transforms : filter = WaitMapFilter(f)
       \/ /\ \E b \in TestBlocks : closure = PollMe(b) /\ block = b
          /\ driver \in {"block", "future", "stream"}
          /\ \/ filter = NoFilter
             \/ filter = WaitFilter(test_filter_pred)
             \/ filter = WaitMapFilter(test_filter_map_pred)
       \/ /\ closure = PollMe(test_if_ready_block)
          /\ block = test_if_ready_block
          /\ driver = "if_ready"
          /\ filter = NoFilter
    /\ steps = <<>>
    /\ ctx = NewContext
    /\ AdapterIdle("none")
    /\ AlgebraIdle(WouldBlock)

NextComp == BlockStep \/ FutureStep \/ StreamStep \/ IfReadyStep

SpecComp == InitComp /\ [][NextComp]_vars

\* ----------------------------------------------------------------- claims
IsReadyOutcome(o) == o.tag = "Ok"
IsResolvedTurn(t) == t.ret.tag = "Ready"

\* what the closure made ready, and what the polls of the computation handed out
ReadyOutcomes == SelectSeq(produced, IsReadyOutcome)
ResolvedTurns == SelectSeq(turns, IsResolvedTurn)
Emitted == [i \in 1..Len(ResolvedTurns) |-> ResolvedTurns[i].ret.val]
SuspendedTurns == {i \in 1..Len(turns) : turns[i].ret = Pending}

\* C1: poll_nb_future: when the closure returns WouldBlock on its first n
\* invocations and Ok(v) on invocation n+1, turns 1..n each return Pending and
\* each request one wake, and turn n+1 is the first to resolve, with Ok(v).
C1_FutureResolvesAfterNPlus1 ==
    task = "future" =>
      \A n \in 0..(Len(produced) - 1) :
        ( /\ \A i \in 1..n : produced[i] = WouldBlock
          /\ produced[n + 1].tag = "Ok" )
        => /\ Len(turns) >= n + 1
           /\ \A i \in 1..n : turns[i] = [ret |-> Pending, woke |-> 1]
           /\ turns[n + 1].ret = Ready(ROk(produced[n + 1].val))

C1_Witness ==
    /\ task = "future"
    /\ produced = <<WouldBlock, WouldBlock, WouldBlock, Ok(2)>>
    /\ Len(turns) = 4
    /\ ctx.wakes = 3

\* C2: into_poll maps Ok(t) to Ready(Ok(t)), Other(e) to Ready(Err(e)) and
\* WouldBlock to Pending; it wakes the waker exactly once for WouldBlock and
\* not at all for the other two.
C2_IntoPollMapping ==
    op = "into_poll" =>
      /\ input.tag = "Ok" => out = Ready(ROk(input.val)) /\ ctx.wakes = 0
      /\ input.tag = "Other" => out = Ready(RErr(input.err)) /\ ctx.wakes = 0
      /\ input.tag = "WouldBlock" => out = Pending /\ ctx.wakes = 1

C2_Witness == op = "into_poll" /\ input = WouldBlock /\ out = Pending /\ ctx.wakes = 1

\* C3: poll_nb_stream: when the closure returns only Ok values and
\* WouldBlock, the items handed out are exactly Some(Ok(v)) for the Ok values
\* the closure returned, in order, one each.
C3_StreamEmitsReadyInOrder ==
    ( /\ task = "stream"
      /\ \A i \in 1..Len(produced) : produced[i].tag # "Other" )
    => Emitted = [i \in 1..Len(ReadyOutcomes) |-> Some(ROk(ReadyOutcomes[i].val))]

C3_Witness ==
    /\ task = "stream"
    /\ produced = <<WouldBlock, WouldBlock, Ok(1), WouldBlock, Ok(2)>>
    /\ Emitted = <<Some(ROk(1)), Some(ROk(2))>>

\* C4: a poll of the stream returns Pending or Ready(Some(item)), never
\* Ready(None); an Other(e) of the closure is handed out as Some(Err(e)).
C4_StreamNeverEnds ==
    task = "stream" =>
      /\ Len(turns) = Len(produced)
      /\ \A i \in 1..Len(turns) :
           /\ \/ turns[i].ret = Pending
              \/ turns[i].ret.tag = "Ready" /\ turns[i].ret.val.tag = "Some"
           /\ produced[i].tag = "Other"
                => turns[i].ret = Ready(Some(RErr(produced[i].err)))

C4_Witness ==
    /\ task = "stream"
    /\ Len(turns) >= 3
    /\ produced[1].tag = "Other"
    /\ turns[1].ret = Ready(Some(RErr(produced[1].err)))
    /\ turns[3].ret = Ready(Some(ROk(1)))

\* C5: yield_executor: the first turn returns Pending and requests one wake,
\* the second resolves with the unit value, and however many turns are taken
\* exactly one of them suspended and exactly one wake was requested.
C5_YieldSuspendsOnce ==
    (task = "yield" /\ Len(turns) >= 1) =>
      /\ turns[1] = [ret |-> Pending, woke |-> 1]
      /\ Len(turns) >= 2 => turns[2] = [ret |-> Ready(Unit), woke |-> 0]
      /\ SuspendedTurns = {1}
      /\ ctx.wakes = 1

C5_Witness ==
    /\ task = "yield"
    /\ Len(turns) >= 3
    /\ yielded
    /\ turns[3].ret = Ready(Unit)

\* C6: wait on Ok(t) returns Ok(t) if and only if the predicate holds of t,
\* and WouldBlock otherwise.
C6_WaitFilters ==
    (op = "wait" /\ input.tag = "Ok") =>
      /\ out = Ok(input.val) <=> cb[input.val]
      /\ ~cb[input.val] => out = WouldBlock

C6_Witness == op = "wait" /\ input.tag = "Ok" /\ ~cb[input.val] /\ out = WouldBlock

\* C7: wait_map on Ok(t) returns Ok(u) when the transform gives Some(u) and
\* WouldBlock when it gives None, and applies the transform exactly once, to t.
C7_WaitMapTransforms ==
    (op = "wait_map" /\ input.tag = "Ok") =>
      /\ cb[input.val].tag = "Some" => out = Ok(cb[input.val].val)
      /\ cb[input.val] = None => out = WouldBlock
      /\ cbCalls = <<input.val>>

C7_Witness ==
    /\ op = "wait_map"
    /\ input.tag = "Ok"
    /\ cb[input.val].tag = "Some"
    /\ cb[input.val].val # input.val
    /\ out = Ok(cb[input.val].val)

\* C8: on WouldBlock and on Other(e), wait and wait_map return the input
\* unchanged and do not invoke the predicate or transform.
C8_WaitPassesThrough ==
    (op \in {"wait", "wait_map"} /\ input.tag # "Ok") =>
      /\ out = input
      /\ cbCalls = <<>>

C8_Witness == op \in {"wait", "wait_map"} /\ input.tag = "Other" /\ out = input

\* C9: if_ready returns Err(e) on Other(e) and Ok(()) on WouldBlock without
\* invoking the consumer; on Ok(t) it invokes the consumer once with t and
\* returns Ok(()) if the consumer did, Err(from(e2)) if it returned Err(e2).
C9_IfReady ==
    op = "if_ready" =>
      /\ input.tag = "Other" => out = RErr(input.err) /\ cbCalls = <<>>
      /\ input.tag = "WouldBlock" => out = ROk(Unit) /\ cbCalls = <<>>
      /\ input.tag = "Ok" =>
           /\ cbCalls = <<input.val>>
           /\ cb.then[input.val].tag = "ROk" => out = ROk(Unit)
           /\ cb.then[input.val].tag = "RErr"
                => out = RErr(cb.from[cb.then[input.val].err])

C9_Witness ==
    /\ op = "if_ready"
    /\ input.tag = "Ok"
    /\ cb.then[input.val].tag = "RErr"
    /\ cb.from[cb.then[input.val].err] # cb.then[input.val].err
    /\ out = RErr(cb.from[cb.then[input.val].err])

\* C10: expect_ok returns Some(t) on Ok(t) and None on WouldBlock without
\* panicking; on Other(e) it panics and returns nothing; it panics for Other
\* inputs only.
C10_ExpectOk ==
    op = "expect_ok" =>
      /\ input.tag = "Ok" => out = Some(input.val) /\ panicked = NoPanic
      /\ input.tag = "WouldBlock" => out = None /\ panicked = NoPanic
      /\ input.tag = "Other" => out = NoValue /\ panicked = Panic(cb, input.err)
      /\ panicked.tag = "Panic" <=> input.tag = "Other"

C10_Witness ==
    /\ op = "expect_ok"
    /\ input.tag = "Other"
    /\ panicked = Panic(cb, input.err)
    /\ out = NoValue

\* C11: into_nb_result maps Ok(v) to Ok(v), an error whose kind is WouldBlock
\* to WouldBlock, and an error of any other kind to Other carrying that same
\* error.
C11_IntoNbResult ==
    op = "into_nb_result" =>
      /\ input.tag = "IoOk" => out = Ok(input.val)
      /\ (input.tag = "IoErr" /\ input.err.kind = "WouldBlock") => out = WouldBlock
      /\ (input.tag = "IoErr" /\ input.err.kind # "WouldBlock") => out = Other(input.err)

C11_Witness ==
    /\ op = "into_nb_result"
    /\ input.tag = "IoErr"
    /\ input.err.kind = "NotFound"
    /\ out = Other(input.err)

\* C15: is_would_block is true exactly for WouldBlock, leaves the outcome as
\* it was, and so is true exactly for the outcomes into_poll turns into
\* Pending and expect_ok turns into None.
C15_IsWouldBlock ==
    op = "is_would_block" =>
      /\ out = (input = WouldBlock)
      /\ out = (into_poll(input, ctx).ret = Pending)
      /\ \A msg \in Msgs : out = (expect_ok(input, msg).ret = None)

C15_Witness == op = "is_would_block" /\ input.tag = "Other" /\ out = FALSE

\* C12: while the closure has returned nothing but WouldBlock, every turn of
\* the future and of the stream has returned Pending and requested one wake:
\* no turn resolves, however many turns are taken.
C12_AlwaysBlockedNeverResolves ==
    ( /\ task \in {"future", "stream"}
      /\ \A i \in 1..Len(produced) : produced[i] = WouldBlock )
    => /\ Len(turns) = Len(produced)
       /\ \A i \in 1..Len(turns) : turns[i] = [ret |-> Pending, woke |-> 1]
       /\ ctx.wakes = Len(turns)

C12_Witness ==
    /\ task = "stream"
    /\ Len(turns) >= 5
    /\ \A i \in 1..Len(produced) : produced[i] = WouldBlock
    /\ ResolvedTurns = <<>>

\* C16: the closure is invoked once per turn of the future or stream and at
\* no other time: after k turns it has returned k outcomes, none before the
\* first turn.
C16_OneCallPerTurn ==
    task \in {"future", "stream"} => Len(produced) = Len(turns)

C16_Witness ==
    /\ task = "future"
    /\ Len(turns) = 3
    /\ Len(produced) = 3
    /\ produced[1].tag = "Ok"

\* C20: the stream has handed out as many items as the closure has returned
\* outcomes other than WouldBlock, each item being that outcome; the turn after
\* an Err(e) item invokes the closure again and hands out what it produces.
IsResolving(o) == o.tag # "WouldBlock"
NonBlockingOutcomes == SelectSeq(produced, IsResolving)
ItemOf(o) == IF o.tag = "Ok" THEN Some(ROk(o.val)) ELSE Some(RErr(o.err))

C20_StreamKeepsNoState ==
    task = "stream" =>
      /\ Emitted = [i \in 1..Len(NonBlockingOutcomes) |-> ItemOf(NonBlockingOutcomes[i])]
      /\ \A i \in 1..(Len(turns) - 1) :
           turns[i].ret.tag = "Ready" /\ turns[i].ret.val.val.tag = "RErr"
           => /\ Len(produced) >= i + 1
              /\ turns[i + 1].ret = poll_nb_stream(produced[i + 1], NewContext).ret

C20_Witness ==
    /\ task = "stream"
    /\ Len(turns) = 3
    /\ produced = <<Other(1), WouldBlock, Ok(2)>>
    /\ Emitted = <<Some(RErr(1)), Some(ROk(2))>>

\* Whether the chained filter lets the value through, and what the closure's
\* outcome then makes nb::block! return.
Accepts(v) ==
    IF filter.kind = "wait" THEN filter.pred[v] ELSE filter.pred[v].tag = "Some"
Rejected(o) == o.tag = "Ok" /\ ~Accepts(o.val)
StopsAt(o) == o.tag = "Other" \/ (o.tag = "Ok" /\ Accepts(o.val))
LoopValue(o) ==
    IF o.tag = "Other" THEN RErr(o.err)
    ELSE IF filter.kind = "wait" THEN ROk(o.val)
    ELSE ROk(filter.pred[o.val].val)

\* what a resolved turn of the future or stream carries
Payload(ret) == IF driver = "stream" THEN ret.val.val ELSE ret.val

\* polls poll_me needs, from block b, before it returns the value target
PollsUntil(b, target) ==
    b.remaining_attemts + 1 + (target - b.value) * (b.attempts_per_item + 1)

IsDefaultPollMe == closure.kind = "poll_me" /\ closure.init = MaybeBlock_default

\* C13 (as amended): from the default MaybeBlock, nb::block! on
\* poll_me().wait(value == 5) returns 5 on its 32nd poll and not before, and
\* the future wrapping that same expression poll_me().wait(value == 5)
\* resolves to Ok(5) on its 32nd turn and not before.
C13_EndToEndFiltered ==
    (IsDefaultPollMe /\ filter.kind = "wait" /\ driver \in {"block", "future"}) =>
      LET n == PollsUntil(MaybeBlock_default, 5) IN
        /\ Len(steps) <= n
        /\ Len(steps) < n => ~Finished
        /\ Len(steps) = n =>
             /\ Finished
             /\ driver = "block" => Last.ret = ROk(5)
             /\ driver = "future" => Last.ret = Ready(ROk(5))

C13_Witness ==
    /\ IsDefaultPollMe
    /\ filter.kind = "wait"
    /\ driver = "future"
    /\ Len(steps) = 32
    /\ Last.ret = Ready(ROk(5))
    /\ ctx.wakes = 31

\* C13 (as claimed): nb::block! on poll_me().wait(value == 5) returns 5, and
\* the future wrapping the closure poll_me itself resolves to Ok(5) after as
\* many turns as the loop needed polls.
C13_EndToEndSameClosure ==
    (IsDefaultPollMe /\ Finished) =>
      LET n == PollsUntil(MaybeBlock_default, 5) IN
        /\ (driver = "block" /\ filter.kind = "wait")
             => Last.ret = ROk(5) /\ Len(steps) = n
        /\ (driver = "future" /\ filter.kind = "none")
             => Last.ret = Ready(ROk(5)) /\ Len(steps) = n

\* C14: for a future or stream wrapping closure().wait(p) or
\* closure().wait_map(f), a turn resolves with Err(e) exactly when the closure
\* returned Other(e) on that turn; a WouldBlock of the closure and a value the
\* filter rejected both give Pending with a wake, never a resolution.
C14_ErrorTransparency ==
    (driver \in {"future", "stream"} /\ filter.kind \in {"wait", "wait_map"}) =>
      \A i \in 1..Len(steps) :
        LET s == steps[i] IN
          /\ s.raw.tag = "Other"
               => s.ret.tag = "Ready" /\ Payload(s.ret) = RErr(s.raw.err)
          /\ (s.ret.tag = "Ready" /\ Payload(s.ret).tag = "RErr")
               => s.raw = Other(Payload(s.ret).err)
          /\ (s.raw.tag = "WouldBlock" \/ Rejected(s.raw))
               => s.ret = Pending /\ s.woke = 1

C14_Witness ==
    /\ driver = "stream"
    /\ filter.kind = "wait"
    /\ Len(steps) >= 2
    /\ Rejected(steps[1].raw)
    /\ steps[1].ret = Pending
    /\ steps[2].raw.tag = "Other"
    /\ steps[2].ret = Ready(Some(RErr(steps[2].raw.err)))

\* C17: in test_if_ready the first poll_me().if_ready(..) does not invoke its
\* consumer and the second invokes its consumer with 18.
C17_SecondIfReadyInvokes ==
    driver = "if_ready" =>
      /\ Len(steps) >= 1 => steps[1].calls = <<>>
      /\ Len(steps) >= 2 => steps[2].calls = <<18>>

\* C18: nb::block! on closure().wait(p) or closure().wait_map(f) goes on
\* while the closure returns WouldBlock or a value the filter rejects, stops
\* at the first outcome that is an accepted value or Other(e), and returns
\* that value or error; no rejected value is returned.
C18_RetryLoopStopsAtFirstAccepted ==
    (driver = "block" /\ filter.kind \in {"wait", "wait_map"}) =>
      \A i \in 1..Len(steps) :
        /\ i < Len(steps) => ~StopsAt(steps[i].raw)
        /\ StopsAt(steps[i].raw)
             => i = Len(steps) /\ Finished /\ steps[i].ret = LoopValue(steps[i].raw)
        /\ ~StopsAt(steps[i].raw) => steps[i].ret = Continue

C18_Witness ==
    /\ driver = "block"
    /\ closure = AnyClosure
    /\ filter.kind = "wait"
    /\ Len(steps) = 3
    /\ steps[1].raw = Ok(1)
    /\ steps[2].raw = WouldBlock
    /\ steps[3].raw = Ok(2)
    /\ Last.ret = ROk(2)

\* C19: every turn of the future, the stream or yield_executor that returned
\* Pending requested a wake in that turn; so, under a scheduler that fairly
\* re-polls what asked to be woken and a closure that does not block for
\* ever, a computation that has not resolved (not yet polled, or Pending)
\* eventually resolves.
Unresolved == IF turns = <<>> THEN TRUE ELSE LastTurn.ret = Pending
Resolved == IF turns = <<>> THEN FALSE ELSE LastTurn.ret.tag = "Ready"
C19_NoLostWakeup ==
    /\ [](\A i \in 1..Len(turns) : turns[i].ret = Pending => turns[i].woke >= 1)
    /\ (Unresolved ~> Resolved)

C19_Witness ==
    /\ task = "future"
    /\ Len(turns) = 3
    /\ turns[1] = [ret |-> Pending, woke |-> 1]
    /\ turns[2] = [ret |-> Pending, woke |-> 1]
    /\ turns[3].ret.tag = "Ready"

====
